---- MODULE Spec2Model ----
(***************************************************************************)
(* Model of the flask blogging site (sample/app): the user and post store, *)
(* the login session of one browser, and the request handlers of auth.py   *)
(* and blog.py.  One action per request handler; the response of the last  *)
(* request is kept in resp.  Spec serves one request at a time; SpecRace   *)
(* serves signup and seed requests step by step (the queries and commits   *)
(* of requests in flight interleave), their positions kept in pending.     *)
(*                                                                         *)
(* Abstractions:                                                           *)
(*  - a DateTime is its day number since 1970-01-01 (year and month are     *)
(*    extracted with the Gregorian calendar);                              *)
(*  - a text body is its character count plus a flag telling whether it is *)
(*    whitespace only (that is all the validators look at);                *)
(*  - a password hash is a record naming the password it was made from;    *)
(*  - a query without ORDER BY returns its rows in the order the store     *)
(*    scans them, which the handler does not control: ScanOrders.          *)
(***************************************************************************)
EXTENDS Integers, Sequences, FiniteSets, TLC

VARIABLES users, posts, current_user, now, resp, pending

vars == <<users, posts, current_user, now, resp, pending>>

---------------------------------------------------------------------------
(* Bounds of the model *)

MaxCreates == 1
MaxPosts == 40
MaxNow == 17631

(* Program constants *)

ITEMS_PER_PAGE == 10
posts_to_make == 30
time_diff == 15
seed_post_limit == 200
content_min == 10
content_max == 10000

---------------------------------------------------------------------------
(* Generic helpers *)

Range(s) == {s[i] : i \in DOMAIN s}

Min(a, b) == IF a < b THEN a ELSE b

Reverse(s) == [i \in DOMAIN s |-> s[Len(s) + 1 - i]]

(* Python None / an optional integer *)
None == [some |-> FALSE, val |-> 0]

Some(n) == [some |-> TRUE, val |-> n]

---------------------------------------------------------------------------
(* Calendar: year and month of a day number (proleptic Gregorian) *)

(* the month (1..12) and the year of a day number *)
CivilDoe(day) == (day + 719468) % 146097

CivilYoe(doe) ==
    (doe - (doe \div 1460) + (doe \div 36524) - (doe \div 146096)) \div 365

CivilDoy(doe, yoe) == doe - (365 * yoe + (yoe \div 4) - (yoe \div 100))

CivilMonth(doy) ==
    LET mp == (5 * doy + 2) \div 153
    IN IF mp < 10 THEN mp + 3 ELSE mp - 9

MonthOf(day) ==
    LET doe == CivilDoe(day)
    IN CivilMonth(CivilDoy(doe, CivilYoe(doe)))

YearOf(day) ==
    LET doe == CivilDoe(day)
        yoe == CivilYoe(doe)
    IN yoe + ((day + 719468) \div 146097) * 400
           + (IF CivilMonth(CivilDoy(doe, yoe)) <= 2 THEN 1 ELSE 0)

month_name ==
    << "January", "February", "March", "April", "May", "June", "July",
       "August", "September", "October", "November", "December" >>

---------------------------------------------------------------------------
(* Passwords *)

generate_password_hash(password) == [hash_of |-> password]

check_password(user, password) == user.password = generate_password_hash(password)

---------------------------------------------------------------------------
(* Text values: a character count and whether the text is blank *)

Text(n) == [len |-> n, blank |-> (n = 0)]

Spaces(n) == [len |-> n, blank |-> TRUE]

(* wtforms DataRequired on a text area and on a plain string *)
DataRequiredText(t) == ~t.blank

DataRequiredStr(s) == s # "" /\ s # " "

LengthOk(t) == t.len >= content_min /\ t.len <= content_max

---------------------------------------------------------------------------
(* The store *)

UserByEmail(us, email) == {us[i] : i \in {j \in DOMAIN us : us[j].email = email}}

UserById(us, id) == {us[i] : i \in {j \in DOMAIN us : us[j].id = id}}

NewUser(us, email, password, name) ==
    [id |-> Len(us) + 1, email |-> email,
     password |-> generate_password_hash(password), name |-> name]

add_user_row(us, email, password, name) == Append(us, NewUser(us, email, password, name))

NewPost(ps, title, body, author_id, pub_date) ==
    [id |-> Len(ps) + 1, title |-> title, body |-> body,
     pub_date |-> pub_date, author_id |-> author_id]

(* mutant: the new post is written over the post stored last *)
add_post_overwriting(ps, title, body, author_id, pub_date) ==
    IF ps = <<>> THEN <<NewPost(ps, title, body, author_id, pub_date)>>
    ELSE [ps EXCEPT ![Len(ps)] = NewPost(ps, title, body, author_id, pub_date)]

add_post(ps, title, body, author_id, pub_date) ==
    Append(ps, NewPost(ps, title, body, author_id, pub_date))

---------------------------------------------------------------------------
(* Responses *)

(* A raw request argument: absent, a text that is no integer, or an integer *)
Absent == [kind |-> "absent", val |-> 0]

Txt == [kind |-> "text", val |-> 0]

Num(n) == [kind |-> "int", val |-> n]

(* request.args.get(key, type=int): None when absent or not an integer *)
ArgInt(raw) == IF raw.kind = "int" THEN Some(raw.val) ELSE None

(* request.args.get(key, default=d, type=int) *)
ArgIntDefault(raw, d) == IF raw.kind = "int" THEN raw.val ELSE d

NoUrl == [some |-> FALSE, page |-> 0, year |-> 0, month |-> 0, author_id |-> 0]

NoOptions == [year |-> <<>>, month |-> <<>>, author |-> <<>>]

NoReq == [name |-> "", email |-> "", password |-> "", confirm_password |-> "",
          title |-> "", content |-> Text(0), method |-> "GET", csrf_token |-> TRUE,
          year |-> Absent, month |-> Absent, author_id |-> Absent,
          author |-> Absent, page |-> Absent,
          form_year |-> None, form_month |-> None, form_author |-> None,
          route_id |-> 0, next |-> ""]

BaseResp(view, outcome, req) ==
    [view |-> view, outcome |-> outcome, req |-> req, flash |-> "",
     mode |-> "none", has_form |-> FALSE, has_posts |-> FALSE, items |-> <<>>,
     next_url |-> NoUrl, prev_url |-> NoUrl, options |-> NoOptions,
     location |-> "", user |-> <<>>, post_count |-> 0, authors |-> <<>>]

Flash(r, msg) == [r EXCEPT !.flash = msg]

---------------------------------------------------------------------------
(* One request is served at a time: a handler runs once the response of the
   request before it has been sent *)

Idle == resp.view = "none"

Deliver ==
    /\ ~Idle
    /\ resp' = BaseResp("none", "none", NoReq)
    /\ UNCHANGED <<users, posts, current_user, now, pending>>

---------------------------------------------------------------------------
(* flask_wtf: validate_on_submit() validates a POST request only, and a
   form validates only with the session's CSRF token (SECRET_KEY is set) *)

Submitted(req) == req.method = "POST"

CsrfValid(req) == req.csrf_token

---------------------------------------------------------------------------
(* auth.py *)

SignupEmails == {"", "fakeemail@example.com"}

SignupRequests ==
    {NoReq} \cup
    {[NoReq EXCEPT !.method = "POST", !.name = n, !.email = e,
                   !.password = p, !.confirm_password = c] :
        n \in {"", "Ann"}, e \in SignupEmails,
        p \in {"", "password"}, c \in {"password", "other"}}
    \cup
    {[NoReq EXCEPT !.method = "POST", !.csrf_token = FALSE, !.name = "Ann",
                   !.email = "fakeemail@example.com", !.password = "password",
                   !.confirm_password = "password"]}

SignupFieldsValid(req) ==
    /\ CsrfValid(req)
    /\ DataRequiredStr(req.name)
    /\ DataRequiredStr(req.email)
    /\ DataRequiredStr(req.password)
    /\ req.password = req.confirm_password

(* mutant: the check for a user with that email is left out *)
SignupFormValidate_any_email(us, req) == SignupFieldsValid(req)

SignupFormValidate(us, req) ==
    /\ SignupFieldsValid(req)
    /\ UserByEmail(us, req.email) = {}

Signup ==
    /\ Idle
    /\ \E req \in SignupRequests :
        IF Submitted(req) /\ SignupFormValidate(users, req)
        THEN /\ users' = add_user_row(users, req.email, req.password, req.name)
             /\ current_user' = Len(users) + 1
             /\ resp' = Flash(BaseResp("signup", "redirect", req),
                              "Thanks for signing up! Go to the Create page to make a post.")
             /\ UNCHANGED <<posts, now, pending>>
        ELSE /\ resp' = [BaseResp("signup", "form", req) EXCEPT !.has_form = TRUE]
             /\ UNCHANGED <<users, posts, current_user, now, pending>>

LoginRequests ==
    {NoReq} \cup
    {[NoReq EXCEPT !.method = "POST", !.email = e, !.password = p] :
        e \in SignupEmails, p \in {"", "password", "other"}}
    \cup
    {[NoReq EXCEPT !.method = "POST", !.csrf_token = FALSE,
                   !.email = "fakeemail@example.com", !.password = "password"]}

LoginFormUser(us, req) ==
    IF CsrfValid(req) /\ DataRequiredStr(req.email) /\ DataRequiredStr(req.password)
    THEN {u \in UserByEmail(us, req.email) : check_password(u, req.password)}
    ELSE {}

Login ==
    /\ Idle
    /\ \E req \in LoginRequests :
        IF Submitted(req) /\ LoginFormUser(users, req) # {}
        THEN /\ current_user' = (CHOOSE u \in LoginFormUser(users, req) : TRUE).id
             /\ resp' = Flash(BaseResp("login", "redirect", req), "Logged in successfully.")
             /\ UNCHANGED <<users, posts, now, pending>>
        ELSE /\ resp' = [BaseResp("login", "form", req) EXCEPT !.has_form = TRUE]
             /\ UNCHANGED <<users, posts, current_user, now, pending>>

Unauthorized(view) ==
    Flash(BaseResp(view, "login_redirect", NoReq),
          "Please log in or create an account to access this page.")

Logout ==
    /\ Idle
    /\ IF current_user = 0
       THEN /\ resp' = Unauthorized("logout")
            /\ UNCHANGED <<users, posts, current_user, now, pending>>
       ELSE /\ current_user' = 0
            /\ resp' = BaseResp("logout", "redirect", NoReq)
            /\ UNCHANGED <<users, posts, now, pending>>

---------------------------------------------------------------------------
(* blog.py: create *)

(* number of posts made by create (the others come in seedings of
   posts_to_make): what MaxCreates bounds *)
HandMade(ps) == Len(ps) % posts_to_make

CreateRequests ==
    {NoReq} \cup
    {[NoReq EXCEPT !.method = "POST", !.title = t, !.content = c] :
        t \in {"", " ", "Hello"},
        c \in {Text(0), Spaces(content_min), Text(content_min - 1), Text(content_min),
               Text(content_max), Text(content_max + 1)}}
    \cup
    {[NoReq EXCEPT !.method = "POST", !.csrf_token = FALSE, !.title = "Hello",
                   !.content = Text(content_min)]}

PostFormValidate(req) ==
    /\ CsrfValid(req)
    /\ DataRequiredStr(req.title)
    /\ DataRequiredText(req.content)
    /\ LengthOk(req.content)

(* mutant: the view is not login_required *)
Create_without_login_required ==
    /\ Idle
    /\ \E req \in CreateRequests :
        IF Submitted(req) /\ PostFormValidate(req)
        THEN /\ HandMade(posts) < MaxCreates
             /\ Len(posts) < MaxPosts
             /\ posts' = add_post(posts, req.title, req.content, current_user, now)
             /\ resp' = Flash(BaseResp("create", "redirect", req), "Post created successfully.")
             /\ UNCHANGED <<users, current_user, now, pending>>
        ELSE /\ resp' = [BaseResp("create", "form", req) EXCEPT !.has_form = TRUE]
             /\ UNCHANGED <<users, posts, current_user, now, pending>>

Create ==
    /\ Idle
    /\ \E req \in CreateRequests :
        IF current_user = 0
        THEN /\ resp' = Unauthorized("create")
             /\ UNCHANGED <<users, posts, current_user, now, pending>>
        ELSE IF Submitted(req) /\ PostFormValidate(req)
        THEN /\ HandMade(posts) < MaxCreates
             /\ Len(posts) < MaxPosts
             /\ posts' = add_post(posts, req.title, req.content, current_user, now)
             /\ resp' = Flash(BaseResp("create", "redirect", req), "Post created successfully.")
             /\ UNCHANGED <<users, current_user, now, pending>>
        ELSE /\ resp' = [BaseResp("create", "form", req) EXCEPT !.has_form = TRUE]
             /\ UNCHANGED <<users, posts, current_user, now, pending>>

---------------------------------------------------------------------------
(* blog.py: seed *)

SeedUsers ==
    << [email |-> "fakeemail@example.com", password |-> "password", name |-> "Joe"],
       [email |-> "anotherlongfakeemail@example.com", password |-> "password", name |-> "Sawyer"],
       [email |-> "longemailsaretheworst@example.com", password |-> "password", name |-> "Danielle"],
       [email |-> "longemailexample@example.com", password |-> "password", name |-> "Logan"],
       [email |-> "tomsemail@example.com", password |-> "password", name |-> "Tom"],
       [email |-> "terrysemail@example.com", password |-> "password", name |-> "Terry"],
       [email |-> "rachelsemail@example.com", password |-> "password", name |-> "Rachel"],
       [email |-> "paulsemail@example.com", password |-> "password", name |-> "Paul"],
       [email |-> "susiesemail@example.com", password |-> "password", name |-> "Susie"],
       [email |-> "ryansemail@example.com", password |-> "password", name |-> "Ryan"],
       [email |-> "cathysemail@example.com", password |-> "password", name |-> "Cathy"] >>

(* lengths of the example post contents (the first three literals are one
   string: they are not separated by commas) *)
SeedPosts == << 718, 272, 55, 159, 85, 260, 140, 83, 140, 55, 63, 102, 93 >>

RECURSIVE SeedAddUsers(_, _)
SeedAddUsers(us, k) ==
    IF k > Len(SeedUsers) THEN us
    ELSE SeedAddUsers(
            IF UserByEmail(us, SeedUsers[k].email) = {}
            THEN add_user_row(us, SeedUsers[k].email, SeedUsers[k].password, SeedUsers[k].name)
            ELSE us,
            k + 1)

(* mutant: the id is taken to be the index in the list of example users *)
SeedUserId_list_index(us, k) == k - 1

SeedUserId(us, k) == (CHOOSE u \in UserByEmail(us, SeedUsers[k].email) : TRUE).id

RECURSIVE SeedAddPosts(_, _, _, _, _)
SeedAddPosts(ps, us, post_count, today, post_num) ==
    IF post_num >= posts_to_make THEN ps
    ELSE SeedAddPosts(
            add_post(ps,
                     "Post Number " \o ToString(post_count + posts_to_make - post_num),
                     Text(SeedPosts[(post_num % Len(SeedPosts)) + 1]),
                     SeedUserId(us, (post_num % Len(SeedUsers)) + 1),
                     today - time_diff * post_num),
            us, post_count, today, post_num + 1)

Seed ==
    /\ Idle
    /\ IF Len(posts) > seed_post_limit
       THEN /\ resp' = Flash(BaseResp("seed", "redirect", NoReq), "Too many posts. Bailing.")
            /\ UNCHANGED <<users, posts, current_user, now, pending>>
       ELSE /\ Len(posts) + posts_to_make <= MaxPosts
            /\ users' = SeedAddUsers(users, 1)
            /\ posts' = SeedAddPosts(posts, users', Len(posts), now, 0)
            /\ resp' = Flash(BaseResp("seed", "redirect", NoReq), "Lots of new posts!")
            /\ UNCHANGED <<current_user, now, pending>>

---------------------------------------------------------------------------
(* The relational store's queries *)

(* The order in which the store hands out the rows of a query that states no
   ORDER BY: by primary key, ascending or descending *)
ScanOrders == {"pk_asc", "pk_desc"}

Scan(rows, scan) == IF scan = "pk_desc" THEN Reverse(rows) ELSE rows

(* A filter: '' (no effect on the query) or a comparison of a column *)
NoFilter == [any |-> TRUE, col |-> "", val |-> 0]

ColumnEquals(col, val) == [any |-> FALSE, col |-> col, val |-> val]

Column(p, col) ==
    CASE col = "year" -> YearOf(p.pub_date)
      [] col = "month" -> MonthOf(p.pub_date)
      [] col = "author_id" -> p.author_id

FilterHolds(f, p) == f.any \/ Column(p, f.col) = f.val

FiltersHold(filters, p) == \A i \in DOMAIN filters : FilterHolds(filters[i], p)

QueryFilter(rows, filters) == SelectSeq(rows, LAMBDA p : FiltersHold(filters, p))

(* SELECT DISTINCT: the values in the order of their first row *)
Distinct(s) ==
    LET first == SelectSeq([i \in DOMAIN s |-> i],
                           LAMBDA i : \A j \in 1..(i - 1) : s[j] # s[i])
    IN [k \in DOMAIN first |-> s[first[k]]]

(* ORDER BY pub_date DESC: rows of equal pub_date stay in scan order *)
OrderByPubDateDesc(rows) ==
    LET before(j, i) ==
            \/ rows[j].pub_date > rows[i].pub_date
            \/ rows[j].pub_date = rows[i].pub_date /\ j < i
        rank == [i \in DOMAIN rows |-> 1 + Cardinality({j \in DOMAIN rows : before(j, i)})]
    IN [k \in DOMAIN rows |-> rows[CHOOSE i \in DOMAIN rows : rank[i] = k]]

CeilDiv(a, b) == (a + b - 1) \div b

PageItems(rows, page, per_page) ==
    SubSeq(rows, (page - 1) * per_page + 1, Min(page * per_page, Len(rows)))

PageTotal(rows, page, per_page) ==
    IF page = 1 /\ Len(PageItems(rows, page, per_page)) < per_page
    THEN Len(PageItems(rows, page, per_page))
    ELSE Len(rows)

(* a page number below 1 is served as page 1 (error_out is False) *)
PageNumber(page) == IF page < 1 THEN 1 ELSE page

(* Query.paginate(page, per_page, False) of flask_sqlalchemy, with the
   has_next, has_prev, next_num and prev_num of the Pagination it returns *)
paginate(rows, page, per_page) ==
    LET pg == PageNumber(page)
        total == PageTotal(rows, pg, per_page)
    IN [page |-> pg,
        items |-> PageItems(rows, pg, per_page),
        total |-> total,
        has_next |-> pg < CeilDiv(total, per_page),
        has_prev |-> pg > 1,
        next_num |-> pg + 1,
        prev_num |-> pg - 1]

---------------------------------------------------------------------------
(* blog.py: the archive filters and options *)

year_filter(year) == IF year = 0 THEN NoFilter ELSE ColumnEquals("year", year)

(* mutant: the month is compared with the year column *)
month_filter_on_year(month) ==
    IF month = 0 THEN NoFilter ELSE ColumnEquals("year", month)

month_filter(month) == IF month = 0 THEN NoFilter ELSE ColumnEquals("month", month)

(* mutant: the author filter is left out of the query *)
author_filter_left_out(author_id) == NoFilter

author_filter(author_id) ==
    IF author_id = 0 THEN NoFilter ELSE ColumnEquals("author_id", author_id)

ColumnValues(rows, col) == [i \in DOMAIN rows |-> Column(rows[i], col)]

YearOption(year) == [value |-> year, name |-> ToString(year)]

year_options(ps, month, author_id, scan) ==
    LET years_raw == Distinct(ColumnValues(
            QueryFilter(Scan(ps, scan), <<month_filter(month), author_filter(author_id)>>),
            "year"))
    IN [i \in DOMAIN years_raw |-> YearOption(years_raw[i])]

MonthOption(month) == [value |-> month, name |-> month_name[month]]

month_options(ps, year, author_id, scan) ==
    LET months_raw == Distinct(ColumnValues(
            QueryFilter(Scan(ps, scan), <<year_filter(year), author_filter(author_id)>>),
            "month"))
    IN [i \in DOMAIN months_raw |-> MonthOption(months_raw[i])]

(* the user's name of a post row outer-joined with the users ("" stands for NULL) *)
JoinedName(us, author_id) ==
    IF UserById(us, author_id) = {} THEN ""
    ELSE (CHOOSE u \in UserById(us, author_id) : TRUE).name

AuthorOption(us, author_id) == [value |-> author_id, name |-> JoinedName(us, author_id)]

(* mutant: the month is left out of the filters of the author options *)
author_options_year_only(ps, us, year, month, scan) ==
    LET rows == QueryFilter(Scan(ps, scan), <<year_filter(year)>>)
    IN Distinct([i \in DOMAIN rows |-> AuthorOption(us, rows[i].author_id)])

author_options(ps, us, year, month, scan) ==
    LET rows == QueryFilter(Scan(ps, scan), <<year_filter(year), month_filter(month)>>)
        authors_raw == Distinct([i \in DOMAIN rows |-> AuthorOption(us, rows[i].author_id)])
    IN authors_raw

archive_posts(ps, year, month, author_id, scan) ==
    QueryFilter(Scan(ps, scan),
                <<year_filter(year), month_filter(month), author_filter(author_id)>>)

any_choice == [value |-> 0, name |-> "All"]

(* mutant: the author options ignore the selected year and month *)
archive_options_authors_unnarrowed(ps, us, year, month, author_id, scan) ==
    [year |-> <<any_choice>> \o year_options(ps, month, author_id, scan),
     month |-> <<any_choice>> \o month_options(ps, year, author_id, scan),
     author |-> <<any_choice>> \o author_options(ps, us, 0, 0, scan)]

(* mutant: "All" is appended to the options instead of inserted in front *)
archive_options_all_last(ps, us, year, month, author_id, scan) ==
    [year |-> Append(year_options(ps, month, author_id, scan), any_choice),
     month |-> Append(month_options(ps, year, author_id, scan), any_choice),
     author |-> Append(author_options(ps, us, year, month, scan), any_choice)]

archive_options(ps, us, year, month, author_id, scan) ==
    [year |-> <<any_choice>> \o year_options(ps, month, author_id, scan),
     month |-> <<any_choice>> \o month_options(ps, year, author_id, scan),
     author |-> <<any_choice>> \o author_options(ps, us, year, month, scan)]

---------------------------------------------------------------------------
(* blog.py: index *)

PageArgs == {Absent, Num(0), Num(2), Num(3), Num(4)}

IndexRequests == {[NoReq EXCEPT !.page = pg] : pg \in PageArgs \cup {Txt}}

Url(some, page, year, month, author_id) ==
    IF some
    THEN [some |-> TRUE, page |-> page, year |-> year, month |-> month,
          author_id |-> author_id]
    ELSE NoUrl

ListingResp(view, req, pg, year, month, author_id) ==
    [BaseResp(view, "page", req) EXCEPT
        !.mode = "listing", !.has_posts = TRUE, !.items = pg.items,
        !.next_url = Url(pg.has_next, pg.next_num, year, month, author_id),
        !.prev_url = Url(pg.has_prev, pg.prev_num, year, month, author_id)]

IndexPage(ps, req, scan) ==
    paginate(OrderByPubDateDesc(Scan(ps, scan)), ArgIntDefault(req.page, 1), ITEMS_PER_PAGE)

(* mutant: the page is cut out of the stored posts themselves *)
Index_keeping_page_only ==
    /\ Idle
    /\ \E req \in IndexRequests, scan \in ScanOrders :
        /\ resp' = ListingResp("index", req, IndexPage(posts, req, scan), 0, 0, 0)
        /\ posts' = IndexPage(posts, req, scan).items
        /\ UNCHANGED <<users, current_user, now, pending>>

Index ==
    /\ Idle
    /\ \E req \in IndexRequests, scan \in ScanOrders :
        /\ resp' = ListingResp("index", req, IndexPage(posts, req, scan), 0, 0, 0)
        /\ UNCHANGED <<users, posts, current_user, now, pending>>

---------------------------------------------------------------------------
(* blog.py: archive *)

YearArgs == {Absent, Txt, Num(0), Num(2018), Num(2099)}

MonthArgs == {Absent, Num(0), Num(3)}

ArchiveRequests ==
    {[NoReq EXCEPT !.year = y, !.month = m, !.author_id = a, !.page = pg] :
        y \in {Num(0), Num(2018), Num(2099)}, m \in {Num(0), Num(3)},
        a \in {Num(0), Num(1)}, pg \in PageArgs}
    \cup
    {[NoReq EXCEPT !.year = y, !.month = m, !.author_id = a] :
        y \in {Absent, Txt, Num(2018)}, m \in {Absent, Num(3)},
        a \in {Absent, Num(1), Num(99)}}
    \cup
    {[NoReq EXCEPT !.page = Num(2)],
     [NoReq EXCEPT !.method = "POST", !.year = Num(2018), !.month = Num(0),
                   !.author_id = Num(0)],
     [NoReq EXCEPT !.method = "POST", !.page = Num(2), !.form_year = Some(0),
                   !.form_month = Some(0), !.form_author = Some(0)],
     [NoReq EXCEPT !.method = "POST", !.csrf_token = FALSE, !.form_year = Some(0),
                   !.form_month = Some(0), !.form_author = Some(0)],
     [NoReq EXCEPT !.form_year = Some(0), !.form_month = Some(0),
                   !.form_author = Some(0)]}
    \cup
    {[NoReq EXCEPT !.method = "POST",
                   !.form_year = fy, !.form_month = fm, !.form_author = fa] :
        fy \in {None, Some(0), Some(2018), Some(2099)},
        fm \in {Some(0), Some(3)}, fa \in {Some(0), Some(1)}}

(* mutant: the listing is served as soon as the year is given *)
ArchiveListingArgs_year_only(req) == ArgInt(req.year).some

ArchiveListingArgs(req) ==
    ArgInt(req.year).some /\ ArgInt(req.month).some /\ ArgInt(req.author_id).some

OptionValues(opts) == {opts[i].value : i \in DOMAIN opts}

(* SelectField(coerce=int): the submitted value must be one of the choices *)
ArchiveFormValidate(req, options) ==
    /\ Submitted(req)
    /\ CsrfValid(req)
    /\ req.form_year.some /\ req.form_year.val \in OptionValues(options.year)
    /\ req.form_month.some /\ req.form_month.val \in OptionValues(options.month)
    /\ req.form_author.some /\ req.form_author.val \in OptionValues(options.author)

(* mutant: the page argument is not passed on *)
ArchiveArgsPage_first_page(ps, req, scan) ==
    paginate(archive_posts(ps, ArgInt(req.year).val, ArgInt(req.month).val,
                           ArgInt(req.author_id).val, scan),
             1, ITEMS_PER_PAGE)

ArchiveArgsPage(ps, req, scan) ==
    paginate(archive_posts(ps, ArgInt(req.year).val, ArgInt(req.month).val,
                           ArgInt(req.author_id).val, scan),
             ArgIntDefault(req.page, 1), ITEMS_PER_PAGE)

ArchiveFormPage(ps, req, scan) ==
    paginate(archive_posts(ps, req.form_year.val, req.form_month.val,
                           req.form_author.val, scan),
             1, ITEMS_PER_PAGE)

(* mutant: the form's choices are narrowed by the request's arguments *)
ArchiveFormOptions_from_args(ps, us, req, scan) ==
    archive_options(ps, us, ArgIntDefault(req.year, 0), ArgIntDefault(req.month, 0),
                    ArgIntDefault(req.author_id, 0), scan)

(* options = archive_options(): the request's arguments are not passed *)
ArchiveFormOptions(ps, us, req, scan) == archive_options(ps, us, 0, 0, 0, scan)

SelectionResp(req, options) ==
    [BaseResp("archive", "page", req) EXCEPT
        !.mode = "selection", !.has_form = TRUE, !.options = options]

ArchiveResp(ps, us, req, scan) ==
    IF ArchiveListingArgs(req)
    THEN ListingResp("archive", req, ArchiveArgsPage(ps, req, scan),
                     ArgInt(req.year).val, ArgInt(req.month).val,
                     ArgInt(req.author_id).val)
    ELSE IF ArchiveFormValidate(req, ArchiveFormOptions(ps, us, req, scan))
    THEN ListingResp("archive", req, ArchiveFormPage(ps, req, scan),
                     req.form_year.val, req.form_month.val, req.form_author.val)
    ELSE SelectionResp(req, ArchiveFormOptions(ps, us, req, scan))

Archive ==
    /\ Idle
    /\ \E req \in ArchiveRequests, scan \in ScanOrders :
        /\ resp' = ArchiveResp(posts, users, req, scan)
        /\ UNCHANGED <<users, posts, current_user, now, pending>>

---------------------------------------------------------------------------
(* blog.py: archive_options_ajax *)

AjaxRequests ==
    {[NoReq EXCEPT !.year = y, !.month = m, !.author = a] :
        y \in YearArgs, m \in MonthArgs, a \in {Num(0), Num(1)}}
    \cup {[NoReq EXCEPT !.year = Num(2018), !.month = Num(3)]}

(* int() of every parameter is taken: None or a text that is no integer raises *)
AjaxArgsOk(req) ==
    req.year.kind = "int" /\ req.month.kind = "int" /\ req.author.kind = "int"

AjaxResp(ps, us, req, scan) ==
    IF AjaxArgsOk(req)
    THEN [BaseResp("archive_options_ajax", "json", req) EXCEPT
            !.options = archive_options(ps, us, req.year.val, req.month.val,
                                        req.author.val, scan)]
    ELSE BaseResp("archive_options_ajax", "error", req)

ArchiveOptionsAjax ==
    /\ Idle
    /\ \E req \in AjaxRequests, scan \in ScanOrders :
        /\ resp' = AjaxResp(posts, users, req, scan)
        /\ UNCHANGED <<users, posts, current_user, now, pending>>

---------------------------------------------------------------------------
(* blog.py: author *)

(* the ids asked for in the route: of the first users, and of no user *)
AuthorIds == {0, 1, 9, 12}

NextTargets == {"", "/blog/authors/"}

AuthorRequests ==
    {[NoReq EXCEPT !.route_id = id, !.next = n] : id \in AuthorIds, n \in NextTargets}

(* mutant: the 'next' argument is not looked at *)
NextOrIndex_index_only(req) == "/"

(* request.args.get('next') or url_for('index') *)
NextOrIndex(req) == IF req.next # "" THEN req.next ELSE "/"

Limit(rows, n) == SubSeq(rows, 1, Min(n, Len(rows)))

user_posts_query(ps, author_id) == QueryFilter(ps, <<ColumnEquals("author_id", author_id)>>)

AuthorRecentPosts(ps, author_id, scan) ==
    Limit(OrderByPubDateDesc(Scan(user_posts_query(ps, author_id), scan)), 3)

AuthorResp(ps, us, req, scan) ==
    IF UserById(us, req.route_id) = {}
    THEN [Flash(BaseResp("author", "redirect", req), "Can't find that user id.")
            EXCEPT !.location = NextOrIndex(req)]
    ELSE [BaseResp("author", "page", req) EXCEPT
            !.user = <<CHOOSE u \in UserById(us, req.route_id) : TRUE>>,
            !.post_count = Len(user_posts_query(ps, req.route_id)),
            !.items = AuthorRecentPosts(ps, req.route_id, scan)]

Author ==
    /\ Idle
    /\ \E req \in AuthorRequests, scan \in ScanOrders :
        /\ resp' = AuthorResp(posts, users, req, scan)
        /\ UNCHANGED <<users, posts, current_user, now, pending>>

---------------------------------------------------------------------------
(* blog.py: authors *)

AuthorsRequests == {[NoReq EXCEPT !.page = pg] : pg \in {Absent, Num(2)}}

(* the users that have made a post, each with the number of its posts *)
AuthorsRows(ps, us, scan) ==
    LET withPosts == SelectSeq(Scan(us, scan),
                               LAMBDA u : user_posts_query(ps, u.id) # <<>>)
    IN [k \in DOMAIN withPosts |->
            [id |-> withPosts[k].id, name |-> withPosts[k].name,
             post_count |-> Len(user_posts_query(ps, withPosts[k].id))]]

AuthorsResp(ps, us, req, scan) ==
    LET post_counts == paginate(AuthorsRows(ps, us, scan),
                                ArgIntDefault(req.page, 1), ITEMS_PER_PAGE)
    IN [BaseResp("authors", "page", req) EXCEPT
            !.authors = post_counts.items,
            !.next_url = Url(post_counts.has_next, post_counts.next_num, 0, 0, 0),
            !.prev_url = Url(post_counts.has_prev, post_counts.prev_num, 0, 0, 0)]

Authors ==
    /\ Idle
    /\ \E req \in AuthorsRequests, scan \in ScanOrders :
        /\ resp' = AuthorsResp(posts, users, req, scan)
        /\ UNCHANGED <<users, posts, current_user, now, pending>>

---------------------------------------------------------------------------
(* auth.py: account *)

Account ==
    /\ Idle
    /\ IF current_user = 0
       THEN resp' = Unauthorized("account")
       ELSE resp' = [BaseResp("account", "page", NoReq) EXCEPT
                        !.user = <<CHOOSE u \in UserById(users, current_user) : TRUE>>,
                        !.post_count = Len(user_posts_query(posts, current_user))]
    /\ UNCHANGED <<users, posts, current_user, now, pending>>

---------------------------------------------------------------------------
(* The clock read by datetime.utcnow() *)

ClockSteps == {40}

Tick ==
    \E d \in ClockSteps :
        /\ Idle
        /\ now + d <= MaxNow
        /\ now' = now + d
        /\ UNCHANGED <<users, posts, current_user, resp, pending>>

---------------------------------------------------------------------------
(* Requests in flight.  A signup request validates its form (one query) and
   then adds the user (one insert and commit); seed queries and adds each
   example user in turn and then creates the posts.  Between two of these
   steps the steps of other requests may be taken. *)

Clients == {1, 2}

NoSignup == [pc |-> "idle", req |-> NoReq, outcome |-> "none"]

NoSeed == [pc |-> "idle", k |-> 0, found |-> FALSE, post_count |-> 0, outcome |-> "none"]

NoPending == [signup |-> [c \in Clients |-> NoSignup], seed |-> NoSeed]

RaceEmails == {"fakeemail@example.com", "new@example.com"}

SignupRaceRequests ==
    {NoReq} \cup
    {[NoReq EXCEPT !.method = "POST", !.name = "Ann", !.email = e,
                   !.password = "password", !.confirm_password = "password"] :
        e \in RaceEmails}

(* mutant: the email column is not declared unique *)
EmailUnique_not_declared(us, email) == TRUE

(* the unique index on user.email: an insert of a second row with the email
   of a stored row is refused (IntegrityError) *)
EmailUnique(us, email) == UserByEmail(us, email) = {}

(* signup(), up to the return of form.validate_on_submit() *)
SignupValidate(c) ==
    /\ pending.signup[c].pc = "idle"
    /\ \E req \in SignupRaceRequests :
        pending' = [pending EXCEPT !.signup[c] =
            IF Submitted(req) /\ SignupFormValidate(users, req)
            THEN [pc |-> "validated", req |-> req, outcome |-> "none"]
            ELSE [pc |-> "idle", req |-> req, outcome |-> "form"]]
    /\ UNCHANGED <<users, posts, current_user, now, resp>>

(* signup(), from add_user(..., True) to the redirect *)
SignupAddUser(c) ==
    /\ pending.signup[c].pc = "validated"
    /\ LET req == pending.signup[c].req IN
        IF EmailUnique(users, req.email)
        THEN /\ users' = add_user_row(users, req.email, req.password, req.name)
             /\ current_user' = Len(users) + 1
             /\ pending' = [pending EXCEPT !.signup[c] =
                                [pc |-> "idle", req |-> req, outcome |-> "redirect"]]
        ELSE /\ pending' = [pending EXCEPT !.signup[c] =
                                [pc |-> "idle", req |-> req, outcome |-> "error"]]
             /\ UNCHANGED <<users, current_user>>
    /\ UNCHANGED <<posts, now, resp>>

(* seed(), up to the list of example users *)
SeedCount ==
    /\ pending.seed.pc = "idle"
    /\ IF Len(posts) > seed_post_limit
       THEN pending' = [pending EXCEPT !.seed = [NoSeed EXCEPT !.outcome = "bail"]]
       ELSE /\ Len(posts) + posts_to_make <= MaxPosts
            /\ pending' = [pending EXCEPT !.seed =
                            [pc |-> "query", k |-> 1, found |-> FALSE,
                             post_count |-> Len(posts), outcome |-> "none"]]
    /\ UNCHANGED <<users, posts, current_user, now, resp>>

(* seed(): the query for the k-th example user *)
SeedQueryUser ==
    /\ pending.seed.pc = "query"
    /\ pending' = [pending EXCEPT
                      !.seed.pc = "add",
                      !.seed.found = (UserByEmail(users, SeedUsers[pending.seed.k].email) # {})]
    /\ UNCHANGED <<users, posts, current_user, now, resp>>

(* seed(): add_user of the k-th example user when the query found none *)
SeedAddUser ==
    /\ pending.seed.pc = "add"
    /\ LET k == pending.seed.k
           user == SeedUsers[k]
           advance == [pending EXCEPT
                          !.seed.pc = IF k = Len(SeedUsers) THEN "posts" ELSE "query",
                          !.seed.k = IF k = Len(SeedUsers) THEN k ELSE k + 1]
       IN IF pending.seed.found
          THEN /\ pending' = advance
               /\ UNCHANGED users
          ELSE IF EmailUnique(users, user.email)
          THEN /\ users' = add_user_row(users, user.email, user.password, user.name)
               /\ pending' = advance
          ELSE /\ pending' = [pending EXCEPT !.seed = [NoSeed EXCEPT !.outcome = "error"]]
               /\ UNCHANGED users
    /\ UNCHANGED <<posts, current_user, now, resp>>

(* seed(): the loop that creates the posts, and the redirect *)
SeedCreatePosts ==
    /\ pending.seed.pc = "posts"
    /\ posts' = SeedAddPosts(posts, users, pending.seed.post_count, now, 0)
    /\ pending' = [pending EXCEPT !.seed = [NoSeed EXCEPT !.outcome = "redirect"]]
    /\ UNCHANGED <<users, current_user, now, resp>>

---------------------------------------------------------------------------

Init ==
    /\ users = <<>>
    /\ posts = <<>>
    /\ current_user = 0
    /\ now = 17591
    /\ resp = BaseResp("none", "none", NoReq)
    /\ pending = NoPending

Next ==
    \/ Signup
    \/ Login
    \/ Logout
    \/ Create
    \/ Seed
    \/ Index
    \/ Archive
    \/ ArchiveOptionsAjax
    \/ Author
    \/ Authors
    \/ Account
    \/ Tick
    \/ Deliver

Spec == Init /\ [][Next]_vars

NextRace ==
    \/ \E c \in Clients : SignupValidate(c)
    \/ \E c \in Clients : SignupAddUser(c)
    \/ SeedCount
    \/ SeedQueryUser
    \/ SeedAddUser
    \/ SeedCreatePosts

SpecRace == Init /\ [][NextRace]_vars

---------------------------------------------------------------------------
(* Vocabulary of the properties *)

Max(a, b) == IF a > b THEN a ELSE b

ListingViews == {"index", "archive"}

IsArchiveListing == resp.view = "archive" /\ resp.mode = "listing"

IsArchiveSelection == resp.view = "archive" /\ resp.mode = "selection"

IsAjaxOptions == resp.view = "archive_options_ajax" /\ resp.outcome = "json"

(* the request carries the facet as an integer *)
Carries(raw) == raw.kind = "int"

CarriesAllFacets(req) == Carries(req.year) /\ Carries(req.month) /\ Carries(req.author_id)

(* post p has the attributes the selector asks for (0: any) *)
SelectorMatches(p, year, month, author_id) ==
    /\ year = 0 \/ YearOf(p.pub_date) = year
    /\ month = 0 \/ MonthOf(p.pub_date) = month
    /\ author_id = 0 \/ p.author_id = author_id

Matching(year, month, author_id) ==
    {p \in Range(posts) : SelectorMatches(p, year, month, author_id)}

(* the selector of the listing in resp: none for the index, the query
   arguments or else the submitted form for the archive *)
ListedYear ==
    IF resp.view = "index" THEN 0
    ELSE IF CarriesAllFacets(resp.req) THEN resp.req.year.val ELSE resp.req.form_year.val

ListedMonth ==
    IF resp.view = "index" THEN 0
    ELSE IF CarriesAllFacets(resp.req) THEN resp.req.month.val ELSE resp.req.form_month.val

ListedAuthor ==
    IF resp.view = "index" THEN 0
    ELSE IF CarriesAllFacets(resp.req) THEN resp.req.author_id.val
    ELSE resp.req.form_author.val

ListedMatching == Matching(ListedYear, ListedMonth, ListedAuthor)

ClaimYears == {0, 2017, 2018, 2099}

ClaimMonths == {0, 3, 12}

ClaimAuthors == {0, 1, 99}

NoDuplicates(s) == \A i, j \in DOMAIN s : s[i] = s[j] => i = j

ValueSeq(opts) == [i \in DOMAIN opts |-> opts[i].value]

(* the values of an option list after its first element *)
OtherValues(opts) == {opts[i].value : i \in DOMAIN opts \ {1}}

---------------------------------------------------------------------------
(* C1: archive_posts(year, month, author_id) contains a stored post exactly
   when every non-zero component of the selector equals the post's
   publication year, publication month or author_id; with the all-zero
   selector it returns every stored post.  Checked for every selector of
   ClaimYears x ClaimMonths x ClaimAuthors on every store (each store is
   reached with no response pending), and on the items of every archive
   listing. *)
C1_ArchivePostsMatchSelector ==
    /\ Idle =>
         \A y \in ClaimYears, m \in ClaimMonths, a \in ClaimAuthors, scan \in ScanOrders :
            LET res == archive_posts(posts, y, m, a, scan)
            IN /\ Range(res) = Matching(y, m, a)
               /\ NoDuplicates(res)
               /\ (y = 0 /\ m = 0 /\ a = 0) => Len(res) = Len(posts)
    /\ IsArchiveListing => Range(resp.items) \subseteq ListedMatching

(* an archive listing by year that returns some posts while the store holds
   posts of another year *)
C1_Witness ==
    /\ IsArchiveListing
    /\ ListedYear = 2018
    /\ resp.items # <<>>
    /\ \E p \in Range(posts) : YearOf(p.pub_date) # 2018

---------------------------------------------------------------------------
(* C2: the options of a facet other than "All" are exactly the distinct
   values of that facet among the posts matching the other two selectors,
   each once; they do not depend on the facet's own selector, and a user
   with no post matching the other two selectors is no author option. *)
C2_OptionsAreDistinctValues ==
    /\ IsAjaxOptions =>
         LET y == resp.req.year.val
             m == resp.req.month.val
             a == resp.req.author.val
         IN /\ OtherValues(resp.options.year) = {YearOf(p.pub_date) : p \in Matching(0, m, a)}
            /\ OtherValues(resp.options.month) = {MonthOf(p.pub_date) : p \in Matching(y, 0, a)}
            /\ OtherValues(resp.options.author) = {p.author_id : p \in Matching(y, m, 0)}
            /\ NoDuplicates(ValueSeq(resp.options.year))
            /\ NoDuplicates(ValueSeq(resp.options.month))
            /\ NoDuplicates(ValueSeq(resp.options.author))
    /\ Idle =>
         \A y \in ClaimYears, m \in ClaimMonths, a \in ClaimAuthors, scan \in ScanOrders :
            LET got == archive_options(posts, users, y, m, a, scan)
            IN /\ OtherValues(got.year) = {YearOf(p.pub_date) : p \in Matching(0, m, a)}
               /\ OtherValues(got.month) = {MonthOf(p.pub_date) : p \in Matching(y, 0, a)}
               /\ OtherValues(got.author) = {p.author_id : p \in Matching(y, m, 0)}
               /\ NoDuplicates(ValueSeq(got.year))
               /\ NoDuplicates(ValueSeq(got.month))
               /\ NoDuplicates(ValueSeq(got.author))

(* options narrowed by a year: some stored post's month and some stored
   post's author are not offered *)
C2_Witness ==
    /\ IsAjaxOptions
    /\ resp.req.year.val = 2018 /\ resp.req.month.val = 0 /\ resp.req.author.val = 0
    /\ \E p \in Range(posts) : MonthOf(p.pub_date) \notin OtherValues(resp.options.month)
    /\ \E p \in Range(posts) : p.author_id \notin OtherValues(resp.options.author)
    /\ Len(resp.options.author) > 2

---------------------------------------------------------------------------
(* C3: each of the three option lists archive_options returns starts with
   the option of value 0 named "All", and no other element has value 0. *)
C3_AllOptionFirst ==
    (IsAjaxOptions \/ IsArchiveSelection) =>
        \A opts \in {resp.options.year, resp.options.month, resp.options.author} :
            /\ Len(opts) >= 1
            /\ opts[1] = [value |-> 0, name |-> "All"]
            /\ 0 \notin OtherValues(opts)

(* option lists with more than "All", on a store that holds posts *)
C3_Witness ==
    /\ IsArchiveSelection
    /\ posts # <<>>
    /\ Len(resp.options.year) > 1 /\ Len(resp.options.month) > 1
    /\ Len(resp.options.author) > 1

---------------------------------------------------------------------------
(* the page the request names (1 when it names none) and the page served:
   a number below 1 is served as page 1, a submitted form as page 1 *)
RequestedPage == IF resp.req.page.kind = "int" THEN resp.req.page.val ELSE 1

ServedPage ==
    IF resp.view = "archive" /\ ~CarriesAllFacets(resp.req) THEN 1
    ELSE IF RequestedPage < 1 THEN 1 ELSE RequestedPage

IsListing == resp.view \in ListingViews /\ resp.mode = "listing"

PageHolds(N) ==
    LET S == Cardinality(ListedMatching)
    IN /\ Len(resp.items) = Min(10, Max(0, S - (N - 1) * 10))
       /\ resp.next_url.some <=> N * 10 < S
       /\ resp.prev_url.some <=> N > 1

(* C4 as stated: requesting page N of a listing (index or archive) whose
   matching result set has size S returns min(10, max(0, S - (N-1)*10))
   posts, with a next link iff N*10 < S and a previous link iff N > 1. *)
C4_RequestedPageSlice == IsListing => PageHolds(RequestedPage)

(* C4 as amended: the same for N >= 1 named by the page parameter of the
   index or of an archive request carrying all three facets; a page number
   below 1 is served as page 1, and a submitted facet form is always
   served page 1. *)
C4_ServedPageSlice == IsListing => PageHolds(ServedPage)

(* page 2 of 30 matching posts: a full page with both links *)
C4_Witness ==
    /\ IsListing
    /\ RequestedPage = 2 /\ ServedPage = 2
    /\ Len(resp.items) = 10
    /\ resp.next_url.some /\ resp.next_url.page = 3
    /\ resp.prev_url.some /\ resp.prev_url.page = 1

---------------------------------------------------------------------------
PubDates(rows) == [i \in DOMAIN rows |-> rows[i].pub_date]

(* C5: the archive listing is ordered by publication timestamp descending:
   the page returned holds the publication timestamps of the page's slice
   of the matching posts sorted newest first (so it is sorted itself and
   nothing on it is older than a post of the next page). *)
C5_ArchiveNewestFirst ==
    IsArchiveListing =>
        PubDates(resp.items) =
            PubDates(PageItems(
                OrderByPubDateDesc(SelectSeq(posts,
                    LAMBDA p : SelectorMatches(p, ListedYear, ListedMonth, ListedAuthor))),
                ServedPage, 10))

---------------------------------------------------------------------------
(* a submitted facet form that validates: it is posted with the session's
   token and every field holds "All" (0) or a value some stored post has *)
ValidFacetForm(req) ==
    /\ req.method = "POST" /\ req.csrf_token
    /\ req.form_year.some /\ req.form_month.some /\ req.form_author.some
    /\ req.form_year.val \in {0} \cup {YearOf(p.pub_date) : p \in Range(posts)}
    /\ req.form_month.val \in {0} \cup {MonthOf(p.pub_date) : p \in Range(posts)}
    /\ req.form_author.val \in {0} \cup {p.author_id : p \in Range(posts)}

(* C6: an archive request is answered in listing mode exactly when it
   carries all three facet values or is a submitted facet form that
   validates; every other archive request is answered in selection mode
   with the facet form and no posts. *)
C6_ListingIffFacetsOrForm ==
    resp.view = "archive" =>
        /\ resp.mode = "listing" <=>
              (CarriesAllFacets(resp.req) \/ ValidFacetForm(resp.req))
        /\ resp.mode = "listing" => resp.has_posts /\ ~resp.has_form
        /\ resp.mode # "listing" =>
              /\ resp.mode = "selection"
              /\ resp.has_form /\ ~resp.has_posts /\ resp.items = <<>>

(* a submitted form with a year and a month chosen lists posts *)
C6_Witness ==
    /\ IsArchiveListing
    /\ ~CarriesAllFacets(resp.req)
    /\ resp.req.form_year.val = 2018 /\ resp.req.form_month.val = 3
    /\ resp.items # <<>>

---------------------------------------------------------------------------
FacetOr0(raw) == IF Carries(raw) THEN raw.val ELSE 0

(* C7 as stated: in selection mode each facet's options are computed
   against the other two facet values of the request (0 where the request
   selects nothing). *)
C7_SelectionOptionsFollowRequest ==
    IsArchiveSelection =>
        LET y == FacetOr0(resp.req.year)
            m == FacetOr0(resp.req.month)
            a == FacetOr0(resp.req.author_id)
        IN /\ OtherValues(resp.options.year) = {YearOf(p.pub_date) : p \in Matching(0, m, a)}
           /\ OtherValues(resp.options.month) = {MonthOf(p.pub_date) : p \in Matching(y, 0, a)}
           /\ OtherValues(resp.options.author) = {p.author_id : p \in Matching(y, m, 0)}

(* C7 as amended: in selection mode the archive view returns the options
   of all three facets computed with every facet "any" (0), whatever facet
   values the request carries. *)
C7_SelectionOptionsUnnarrowed ==
    IsArchiveSelection =>
        /\ OtherValues(resp.options.year) = {YearOf(p.pub_date) : p \in Range(posts)}
        /\ OtherValues(resp.options.month) = {MonthOf(p.pub_date) : p \in Range(posts)}
        /\ OtherValues(resp.options.author) = {p.author_id : p \in Range(posts)}

(* a request that selects the year 2018 only is offered a month in which
   no post of 2018 was published *)
C7_Witness ==
    /\ IsArchiveSelection
    /\ resp.req.year = Num(2018) /\ resp.req.month = Absent /\ resp.req.author_id = Absent
    /\ \E mo \in OtherValues(resp.options.month) :
          \A p \in Matching(2018, 0, 0) : MonthOf(p.pub_date) # mo

---------------------------------------------------------------------------
(* C8: for a selector that matches no stored post the archive listing at
   page 1 is an empty page without next and previous link, rendered
   normally. *)
C8_EmptyListing ==
    (IsArchiveListing /\ ListedMatching = {} /\ ServedPage = 1) =>
        /\ resp.outcome = "page"
        /\ resp.items = <<>>
        /\ ~resp.next_url.some
        /\ ~resp.prev_url.some

(* the year 2099 asked of a store that holds posts *)
C8_Witness ==
    /\ IsArchiveListing
    /\ posts # <<>>
    /\ resp.req.year = Num(2099) /\ RequestedPage = 1
    /\ resp.items = <<>>

---------------------------------------------------------------------------
ReadViews == {"index", "archive", "archive_options_ajax"}

(* C9: a request to archive, archive_options_ajax or index leaves the set
   of users and the set of posts as they were. *)
C9_ReadsChangeNothing ==
    [][resp'.view \in ReadViews => (users' = users /\ posts' = posts)]_vars

(* a read answered on a store that holds users and posts *)
C9_Witness ==
    /\ resp.view \in ReadViews
    /\ users # <<>> /\ posts # <<>>

---------------------------------------------------------------------------
(* a post form that fails validation: a field is missing or blank, the body
   is shorter than 10 or longer than 10000 characters, or the form's token
   is not the session's *)
InvalidPostForm(req) ==
    \/ ~req.csrf_token
    \/ req.title \in {"", " "}
    \/ req.content.blank
    \/ req.content.len < 10
    \/ req.content.len > 10000

(* a signup form that fails validation on the users us *)
InvalidSignupForm(us, req) ==
    \/ ~req.csrf_token
    \/ req.name \in {"", " "} \/ req.email \in {"", " "} \/ req.password \in {"", " "}
    \/ req.password # req.confirm_password
    \/ \E i \in DOMAIN us : us[i].email = req.email

(* C10: a post or signup submission that fails validation adds and changes
   no user and no post and leaves the login session as it was. *)
C10_InvalidSubmissionChangesNothing ==
    [][(/\ resp'.req.method = "POST"
        /\ \/ resp'.view = "create" /\ InvalidPostForm(resp'.req)
           \/ resp'.view = "signup" /\ InvalidSignupForm(users, resp'.req))
       => (/\ users' = users /\ posts' = posts /\ current_user' = current_user
           /\ resp'.outcome = "form" /\ resp'.has_form)]_vars

(* a signup with the email of a stored user, rejected *)
C10_Witness ==
    /\ resp.view = "signup"
    /\ resp.req.method = "POST"
    /\ resp.outcome = "form"
    /\ resp.req.name # "" /\ resp.req.password = resp.req.confirm_password
    /\ \E i \in DOMAIN users : users[i].email = resp.req.email

---------------------------------------------------------------------------
(* C11: in every state reached by signup, login, logout, create and seed
   requests, the author_id of every stored post is the id of a stored
   user. *)
C11_AuthorIdReferencesUser ==
    \A i \in DOMAIN posts : \E j \in DOMAIN users : users[j].id = posts[i].author_id

(* the store holds the posts of a seeding and a post made by create *)
C11_Witness ==
    /\ resp.view = "create" /\ resp.outcome = "redirect"
    /\ Len(posts) = posts_to_make + 1
    /\ posts[Len(posts)].author_id = current_user

---------------------------------------------------------------------------
(* C12: no two stored users have the same email, in every state reached by
   signup and seed requests whose queries and commits interleave (two
   signup requests for one email that both validate before either adds its
   user included). *)
C12_EmailsUnique ==
    \A i, j \in DOMAIN users : users[i].email = users[j].email => i = j

(* two signups for one email were both validated; the first added its user
   and the insert of the second was refused *)
C12_Witness ==
    \E c, d \in Clients :
        /\ c # d
        /\ pending.signup[c].outcome = "redirect"
        /\ pending.signup[d].outcome = "error"
        /\ pending.signup[c].req.email = pending.signup[d].req.email
        /\ pending.signup[c].pc = "idle" /\ pending.signup[d].pc = "idle"

---------------------------------------------------------------------------
(* C13: no request changes or removes a stored row: after every step each
   post stored before it is still stored with the same id, title, body,
   pub_date and author_id, and each user with the same id, email, password
   hash and name; the posts and the users only grow. *)
C13_StoredRowsKept ==
    [][/\ Len(posts') >= Len(posts)
       /\ \A i \in DOMAIN posts : posts'[i] = posts[i]
       /\ Len(users') >= Len(users)
       /\ \A i \in DOMAIN users : users'[i] = users[i]]_vars

(* a user made by signup and a post made by create, after which a seeding
   has added its users and posts *)
C13_Witness ==
    /\ resp.view = "seed"
    /\ Len(posts) = posts_to_make + 1
    /\ Len(users) > 1
    /\ users[1].name = "Ann"
    /\ posts[1].title = "Hello"

---------------------------------------------------------------------------
(* C14: progressive narrowing.  On every store, for every year Y of
   NarrowYears and month M of NarrowMonths (0: any): the author options of the
   selector (Y, M) are, after "All", exactly the authors with a post
   published in year Y and month M, and all of them are among the author
   options of (Y, 0); the month options of (Y, author 0) are, after "All",
   months in which a post of year Y was published; each of the lists starts
   with "All". *)
NarrowYears == {0, 2017, 2018, 2099}

NarrowMonths == {0, 2, 3, 12}

AuthorsOf(ps) == {p.author_id : p \in ps}

MonthsOf(ps) == {MonthOf(p.pub_date) : p \in ps}

C14_ProgressiveNarrowing ==
    Idle =>
        \A Y \in NarrowYears, M \in NarrowMonths, scan \in ScanOrders :
            LET ym == archive_options(posts, users, Y, M, 0, scan)
                y0 == archive_options(posts, users, Y, 0, 0, scan)
            IN /\ OtherValues(ym.author) = AuthorsOf(Matching(Y, M, 0))
               /\ OtherValues(ym.author) \subseteq OtherValues(y0.author)
               /\ OtherValues(y0.month) \subseteq MonthsOf(Matching(Y, 0, 0))
               /\ ym.author[1] = any_choice /\ ym.month[1] = any_choice
               /\ y0.author[1] = any_choice /\ y0.month[1] = any_choice

(* a store on which the month narrows the authors of a year: some but not
   all authors of 2018 have a post of March 2018 *)
C14_Witness ==
    /\ Idle
    /\ AuthorsOf(Matching(2018, 3, 0)) # {}
    /\ AuthorsOf(Matching(2018, 3, 0)) # AuthorsOf(Matching(2018, 0, 0))
    /\ AuthorsOf(Matching(2018, 12, 0)) = {}
    /\ AuthorsOf(Matching(2017, 12, 0)) # {}

---------------------------------------------------------------------------
(* C15: a request of the author page leaves the users and the posts as they
   were.  With an id of no stored user it is answered with a redirect to the
   'next' argument, or to the index when there is none, that carries the
   message "Can't find that user id." and shows no author; with the id of a
   stored user it is answered with the page of that user, the number of all
   posts of the user, and the posts of the user of the latest pub_date,
   latest first, three of them at most. *)
PostsBy(id) == {p \in Range(posts) : p.author_id = id}

AuthorNotFoundOk(r) ==
    /\ r.outcome = "redirect"
    /\ r.flash = "Can't find that user id."
    /\ r.location = (IF r.req.next = "" THEN "/" ELSE r.req.next)
    /\ r.user = <<>> /\ r.items = <<>>

AuthorPageOk(r) ==
    /\ r.outcome = "page"
    /\ r.flash = ""
    /\ Len(r.user) = 1 /\ r.user[1] \in Range(users) /\ r.user[1].id = r.req.route_id
    /\ r.post_count = Cardinality(PostsBy(r.req.route_id))
    /\ Len(r.items) = (IF r.post_count < 3 THEN r.post_count ELSE 3)
    /\ NoDuplicates(r.items)
    /\ Range(r.items) \subseteq PostsBy(r.req.route_id)
    /\ \A i, j \in DOMAIN r.items : i < j => r.items[i].pub_date >= r.items[j].pub_date
    /\ \A p \in PostsBy(r.req.route_id) \ Range(r.items) :
            \A i \in DOMAIN r.items : r.items[i].pub_date >= p.pub_date

C15_AuthorPage ==
    [][resp'.view = "author" =>
        /\ users' = users /\ posts' = posts
        /\ IF \E i \in DOMAIN users : users[i].id = resp'.req.route_id
           THEN AuthorPageOk(resp')
           ELSE AuthorNotFoundOk(resp')]_vars

(* the author page was asked for with an id of no user and a 'next'
   argument, while users and posts are stored *)
C15_Witness ==
    /\ resp.view = "author" /\ resp.outcome = "redirect"
    /\ resp.req.next # "" /\ resp.location = resp.req.next
    /\ Len(users) > 1 /\ Len(posts) > posts_to_make
    /\ \A i \in DOMAIN users : users[i].id # resp.req.route_id

---------------------------------------------------------------------------
(* C16: a create request adds a post only when a user is logged in at the
   time of the request and the form validates, and then it adds one post
   whose author_id is the id of that user; a create request with no user
   logged in adds no post. *)
C16_CreateRequiresLogin ==
    [][resp'.view = "create" =>
        /\ posts' # posts =>
            /\ current_user # 0
            /\ \E i \in DOMAIN users : users[i].id = current_user
            /\ resp'.req.method = "POST" /\ ~InvalidPostForm(resp'.req)
            /\ Len(posts') = Len(posts) + 1
            /\ \A i \in DOMAIN posts : posts'[i] = posts[i]
            /\ posts'[Len(posts')].author_id = current_user
        /\ current_user = 0 => posts' = posts]_vars

(* a create request after a signup and a logout: a user is stored, nobody
   is logged in, and the request is sent to the login page *)
C16_Witness ==
    /\ resp.view = "create" /\ resp.outcome = "login_redirect"
    /\ current_user = 0
    /\ users # <<>> /\ posts = <<>>

====
